---------------------------- MODULE Spec2Model ----------------------------
(***************************************************************************)
(* Model of the hint-solver core of bot.py: the normalizers (norm_hint,    *)
(* norm_cat), the statement tokenizer (iter_statements), the category      *)
(* registry (iter_records_and_categories, build_category_maps) and the     *)
(* query engine (solve_hint).                                              *)
(*                                                                         *)
(* A Python str is a sequence of atoms.  An atom is a one-character        *)
(* string, or the name of a text fragment of the dataset (a category       *)
(* object, a word/hint object, a long run of junk) whose length in         *)
(* characters and whose regular-expression matches are given by the        *)
(* table Fragment.  A Python dict is a sequence of <<key, value>> pairs   *)
(* in insertion order.                                                     *)
(***************************************************************************)
EXTENDS Integers, Sequences, FiniteSets, TLC

VARIABLES
    \* iter_statements run on its own
    f,               \* the lines the file iterator has still to deliver
    max_stmt_chars,  \* the threshold parameter
    buf,             \* list of buffered pieces
    buf_len,         \* the running character count
    tpc,             \* position in the generator: "loop", "body", "done"
    line,            \* the line read last
    yielded,         \* the statements yielded so far, in order
    text,            \* the whole file text (never changes)
    oversize,        \* whether the oversize flush (lines 108-113) was ever taken
    \* the registry and the solver
    WORDS_FILE,      \* the lines of the dataset file
    CAT_BY_ID,       \* dict id -> name
    CAT_ALIASES,     \* dict normalized key -> <<id, name>>
    started,         \* whether build_category_maps has run
    call,            \* the arguments of the last solve_hint call
    outcome,         \* how it ended
    \* norm_cat applied to two spellings
    nc,
    \* format_compact applied to a result mapping
    fmt,
    \* the bot: the event loop's handlers and the executor's workers
    USER_ALLOWED_CAT_IDS,  \* dict user id -> reference to a set object
    heap,            \* the set objects: reference -> the set's elements
    cmd,             \* the categories command in progress on the event loop
    scans,           \* the hint queries in flight, one record per worker
    hist             \* per user, the filter-set and clear operations issued so far

tokVars  == <<f, max_stmt_chars, buf, buf_len, tpc, line, yielded, text, oversize>>
scanVars == <<WORDS_FILE, CAT_BY_ID, CAT_ALIASES, started, call, outcome>>
botVars  == <<USER_ALLOWED_CAT_IDS, heap, cmd, scans, hist>>
vars     == <<tokVars, scanVars, nc, fmt, botVars>>

-----------------------------------------------------------------------------
(* Bounds *)

MaxText == 5
MaxThreshold == 4
MaxLines == 2
MaxLimit == 2
MaxWords == 2

-----------------------------------------------------------------------------
(* Strings *)

Idle == <<>>

\* str.isspace() for the characters of the model
WS == {" ", "\n", "\t"}

UpperChars == <<"A","B","C","D","E","F","G","H","I","J","K","L","M",
                "N","O","P","Q","R","S","T","U","V","W","X","Y","Z">>
LowerChars == <<"a","b","c","d","e","f","g","h","i","j","k","l","m",
                "n","o","p","q","r","s","t","u","v","w","x","y","z">>
Digits == {"0","1","2","3","4","5","6","7","8","9"}

Range(s) == {s[i] : i \in 1..Len(s)}

\* the character class [a-z0-9]
AlnumLower == Range(LowerChars) \cup Digits

\* the lower-case letter of each upper-case one
LowerTable ==
    [c \in Range(UpperChars) |-> LowerChars[CHOOSE i \in 1..26 : UpperChars[i] = c]]

LowerChar(c) == IF c \in DOMAIN LowerTable THEN LowerTable[c] ELSE c

\* str.lower()
Lower(s) == [i \in 1..Len(s) |-> LowerChar(s[i])]

RECURSIVE LStrip(_)
LStrip(s) == IF s # <<>> /\ Head(s) \in WS THEN LStrip(Tail(s)) ELSE s

RECURSIVE RStrip(_)
RStrip(s) ==
    IF s # <<>> /\ s[Len(s)] \in WS THEN RStrip(SubSeq(s, 1, Len(s) - 1)) ELSE s

\* str.strip()
Strip(s) == RStrip(LStrip(s))

\* "".join(list)
RECURSIVE Join(_)
Join(l) == IF l = <<>> THEN <<>> ELSE Head(l) \o Join(Tail(l))

\* s.startswith(p), s.endswith(p), p in s
StartsWith(s, p) == Len(p) <= Len(s) /\ SubSeq(s, 1, Len(p)) = p
EndsWith(s, p) == Len(p) <= Len(s) /\ SubSeq(s, Len(s) - Len(p) + 1, Len(s)) = p
Contains(s, p) ==
    \E i \in 1..(Len(s) - Len(p) + 1) : SubSeq(s, i, i + Len(p) - 1) = p

-----------------------------------------------------------------------------
(* Normalization helpers *)

norm_hint(s) == Lower(Strip(s))

\* s.replace("&", " and ")
RECURSIVE ReplaceAmp(_)
ReplaceAmp(s) ==
    IF s = <<>> THEN <<>>
    ELSE (IF Head(s) = "&" THEN <<" ", "a", "n", "d", " ">> ELSE <<Head(s)>>)
         \o ReplaceAmp(Tail(s))

\* re.sub(cls+, " ", s): every maximal run of characters of Class becomes one space
RECURSIVE SubRuns(_, _, _)
SubRuns(s, Class, inRun) ==
    IF s = <<>> THEN <<>>
    ELSE IF Head(s) \in Class
         THEN (IF inRun THEN <<>> ELSE <<" ">>) \o SubRuns(Tail(s), Class, TRUE)
         ELSE <<Head(s)>> \o SubRuns(Tail(s), Class, FALSE)

norm_cat(s) ==
    LET s1 == Lower(Strip(s))
        s2 == ReplaceAmp(s1)
        s3 == SubRuns(s2, Range(s2) \ AlnumLower, FALSE)
    IN  Strip(SubRuns(s3, WS, FALSE))

-----------------------------------------------------------------------------
(* The dataset's text fragments.  Each stands for a piece of text holding no *)
(* ';' and no line break; the fields give what the code's substring tests    *)
(* and regular expressions find in it.                                       *)
(*   len          len() of the text                                          *)
(*   has_cat_id   "category_id" in text        has_name  "name" in text      *)
(*   cat_id       CAT_ID_RE.search(text): <<group 1>>, or <<>> for None      *)
(*   cat_name     CAT_NAME_RE.search(text): <<group 1>>, or <<>>             *)
(*   has_word     "word" in text               has_hint  "hint" in text      *)
(*   word_hint    WORD_HINT_RE.search(text): <<[word, hint]>>, or <<>>       *)

Plain(n) ==
    [len |-> n, has_cat_id |-> FALSE, has_name |-> FALSE, cat_id |-> <<>>,
     cat_name |-> <<>>, has_word |-> FALSE, has_hint |-> FALSE, word_hint |-> <<>>]

\* {'category_id': '<id>', 'name': '<name>'}
CatObj(id, name) ==
    [Plain(31 + Len(id) + Len(name)) EXCEPT
        !.has_cat_id = TRUE, !.has_name = TRUE, !.cat_id = <<id>>, !.cat_name = <<name>>]

\* {'word': '<word>', 'hint': '<hint>'}
WordObj(word, hint) ==
    [Plain(24 + Len(word) + Len(hint)) EXCEPT
        !.has_word = TRUE, !.has_hint = TRUE,
        !.word_hint = <<[word |-> word, hint |-> hint]>>]

Fragment ==
    [ K1  |-> CatObj(<<"1">>, <<"A", " ", "&", " ", "B">>),
      K2  |-> CatObj(<<"X">>, <<"a", " ", "a", "n", "d", " ", "b">>),
      K3  |-> CatObj(<<"1">>, <<"T", "h", "e", " ", "X">>),
      \* {'category_id': '9', name: 'Bad'}: the name key is not quoted
      KB  |-> [Plain(33) EXCEPT !.has_cat_id = TRUE, !.has_name = TRUE, !.cat_id = <<<<"9">>>>],
      W1  |-> WordObj(<<"R", "y", "e">>, <<"A", "b">>),
      W2  |-> WordObj(<<"r", "y", "e">>, <<"a", "b", " ">>),
      W3  |-> WordObj(<<"O", "a", "t">>, <<"a", "b", "c">>),
      W4  |-> WordObj(<<"N", "u", "t">>, <<"c", "a", "b">>),
      \* {'word': 'x', hint: 'ab'}: the hint key is not quoted
      WB  |-> [Plain(25) EXCEPT !.has_word = TRUE, !.has_hint = TRUE],
      \* 200001 characters of junk
      BIG |-> Plain(200001) ]

AtomLen(a) == IF a \in DOMAIN Fragment THEN Fragment[a].len ELSE 1

\* len(s)
RECURSIVE StrLen(_)
StrLen(s) == IF s = <<>> THEN 0 ELSE AtomLen(Head(s)) + StrLen(Tail(s))

-----------------------------------------------------------------------------
(* Statement tokenizer: iter_statements *)

DefaultMaxStmtChars == 200000

\* "for line in f": the text cut after every line break
RECURSIVE FileLines(_, _)
FileLines(t, cur) ==
    IF t = <<>> THEN (IF cur = <<>> THEN <<>> ELSE <<cur>>)
    ELSE IF Head(t) = "\n"
         THEN <<Append(cur, "\n")>> \o FileLines(Tail(t), <<>>)
         ELSE FileLines(Tail(t), Append(cur, Head(t)))

\* joined.split(";")
RECURSIVE SplitSemi(_, _)
SplitSemi(s, cur) ==
    IF s = <<>> THEN <<cur>>
    ELSE IF Head(s) = ";"
         THEN <<cur>> \o SplitSemi(Tail(s), <<>>)
         ELSE SplitSemi(Tail(s), Append(cur, Head(s)))

\* the statements are yielded stripped
RECURSIVE CompleteStatements_Stripped(_)
CompleteStatements_Stripped(parts) ==
    IF Len(parts) <= 1 THEN <<>>
    ELSE (IF Strip(Head(parts)) # <<>> THEN <<Append(Strip(Head(parts)), ";")>> ELSE <<>>)
         \o CompleteStatements_Stripped(Tail(parts))

\* lines 122-124: the complete statements among parts[:-1]
RECURSIVE CompleteStatements(_)
CompleteStatements(parts) ==
    IF Len(parts) <= 1 THEN <<>>
    ELSE (IF Strip(Head(parts)) # <<>> THEN <<Append(Head(parts), ";")>> ELSE <<>>)
         \o CompleteStatements(Tail(parts))

\* lines 104-105
ReadInto(b, ln) ==
    [buf |-> Append(b.buf, ln), buf_len |-> b.buf_len + StrLen(ln)]

\* line 108
TooLong(b, max) == b.buf_len > max

\* line 117
HasTerminator(b) == ";" \in Range(Join(b.buf))

\* the remainder is dropped instead of reseeding the buffer
SplitTail_Dropped(parts) == <<>>

\* lines 126-128: what the buffer is reseeded with after a split
SplitTail(parts) == parts[Len(parts)]

\* the oversize flush resets the counter and forgets buf.clear()
LoopBody_NoClear(b, max) ==
    IF TooLong(b, max)
    THEN [out |-> <<Join(b.buf)>>, buf |-> b.buf, buf_len |-> 0]
    ELSE IF ~HasTerminator(b)
    THEN [out |-> <<>>, buf |-> b.buf, buf_len |-> b.buf_len]
    ELSE LET parts == SplitSemi(Join(b.buf), <<>>)
             tail  == SplitTail(parts)
         IN  [out |-> CompleteStatements(parts), buf |-> <<tail>>,
              buf_len |-> StrLen(tail)]

\* lines 107-128: the rest of the loop body, after the line was appended
LoopBody(b, max) ==
    IF TooLong(b, max)
    THEN [out |-> <<Join(b.buf)>>, buf |-> <<>>, buf_len |-> 0]
    ELSE IF ~HasTerminator(b)
    THEN [out |-> <<>>, buf |-> b.buf, buf_len |-> b.buf_len]
    ELSE LET parts == SplitSemi(Join(b.buf), <<>>)
             tail  == SplitTail(parts)
         IN  [out |-> CompleteStatements(parts), buf |-> <<tail>>,
              buf_len |-> StrLen(tail)]

\* nothing is yielded at the end of the stream
Leftover_Dropped(b) == <<>>

\* lines 130-133
Leftover(b) ==
    LET tail == Strip(Join(b.buf)) IN IF tail # <<>> THEN <<tail>> ELSE <<>>

\* the whole generator, run to exhaustion: the list of the statements it yields
RECURSIVE IterFrom(_, _, _)
IterFrom(b, lines, max) ==
    IF lines = <<>> THEN Leftover(b)
    ELSE LET r == LoopBody(ReadInto(b, Head(lines)), max)
         IN  r.out \o IterFrom([buf |-> r.buf, buf_len |-> r.buf_len], Tail(lines), max)

iter_statements(lines, max) == IterFrom([buf |-> <<>>, buf_len |-> 0], lines, max)

(* The generator step by step *)

TokChars == {"a", "b", ";", " ", "\n"}

Texts == UNION {[1..n -> TokChars] : n \in 0..MaxText}

TokIdle ==
    /\ f = Idle /\ max_stmt_chars = 0 /\ buf = Idle /\ buf_len = 0
    /\ tpc = "idle" /\ line = Idle /\ yielded = Idle /\ text = Idle
    /\ oversize = FALSE

ScanIdle ==
    /\ WORDS_FILE = Idle /\ CAT_BY_ID = Idle /\ CAT_ALIASES = Idle
    /\ started = FALSE /\ call = Idle /\ outcome = Idle

FmtIdle == fmt = Idle

BotIdle ==
    /\ USER_ALLOWED_CAT_IDS = Idle /\ heap = Idle /\ cmd = Idle
    /\ scans = Idle /\ hist = Idle

InitTok ==
    /\ text \in Texts
    /\ f = FileLines(text, <<>>)
    /\ max_stmt_chars \in 0..MaxThreshold
    /\ buf = <<>>
    /\ buf_len = 0
    /\ tpc = "loop"
    /\ line = <<>>
    /\ yielded = <<>>
    /\ oversize = FALSE
    /\ ScanIdle
    /\ nc = Idle
    /\ FmtIdle
    /\ BotIdle

Buffer == [buf |-> buf, buf_len |-> buf_len]

\* lines 103-105
ReadLine ==
    /\ tpc = "loop"
    /\ f # <<>>
    /\ line' = Head(f)
    /\ f' = Tail(f)
    /\ buf' = ReadInto(Buffer, Head(f)).buf
    /\ buf_len' = ReadInto(Buffer, Head(f)).buf_len
    /\ tpc' = "body"
    /\ UNCHANGED <<max_stmt_chars, yielded, text, oversize, scanVars, nc, fmt, botVars>>

FinishLine ==
    /\ yielded' = yielded \o LoopBody(Buffer, max_stmt_chars).out
    /\ buf' = LoopBody(Buffer, max_stmt_chars).buf
    /\ buf_len' = LoopBody(Buffer, max_stmt_chars).buf_len
    /\ tpc' = "loop"
    /\ UNCHANGED <<f, max_stmt_chars, line, text, scanVars, nc, fmt, botVars>>

\* lines 108-113
FlushOversize ==
    /\ tpc = "body"
    /\ TooLong(Buffer, max_stmt_chars)
    /\ oversize' = TRUE
    /\ FinishLine

\* lines 116-118
KeepBuffering ==
    /\ tpc = "body"
    /\ ~TooLong(Buffer, max_stmt_chars)
    /\ ~HasTerminator(Buffer)
    /\ UNCHANGED oversize
    /\ FinishLine

\* lines 120-128
SplitStatements ==
    /\ tpc = "body"
    /\ ~TooLong(Buffer, max_stmt_chars)
    /\ HasTerminator(Buffer)
    /\ UNCHANGED oversize
    /\ FinishLine

\* lines 130-133
EndOfFile ==
    /\ tpc = "loop"
    /\ f = <<>>
    /\ yielded' = yielded \o Leftover(Buffer)
    /\ tpc' = "done"
    /\ UNCHANGED <<f, max_stmt_chars, buf, buf_len, line, text, oversize, scanVars, nc, fmt, botVars>>

NextTok == ReadLine \/ FlushOversize \/ KeepBuffering \/ SplitStatements \/ EndOfFile

SpecTok == InitTok /\ [][NextTok]_vars

-----------------------------------------------------------------------------
(* Python dicts: <<key, value>> pairs in insertion order *)

DictKeys(d) == {d[i][1] : i \in 1..Len(d)}

\* d.get(k): <<value>>, or <<>> for None
DictGet(d, k) ==
    IF k \in DictKeys(d) THEN <<d[CHOOSE i \in 1..Len(d) : d[i][1] = k][2]>> ELSE <<>>

\* d[k] = v: an existing key keeps its place
DictSet(d, k, v) ==
    IF k \in DictKeys(d)
    THEN [i \in 1..Len(d) |-> IF d[i][1] = k THEN <<k, v>> ELSE d[i]]
    ELSE Append(d, <<k, v>>)

-----------------------------------------------------------------------------
(* Record classifier: the tests and searches of lines 148-161 and 224-235 *)

IsFragment(a) == a \in DOMAIN Fragment

\* "<marker>" in stmt
HasMarker(stmt, field) ==
    \E i \in 1..Len(stmt) : IsFragment(stmt[i]) /\ Fragment[stmt[i]][field]

\* RE.search(stmt): the leftmost match, <<>> when there is none
Search(stmt, field) ==
    LET hits == {i \in 1..Len(stmt) :
                    IsFragment(stmt[i]) /\ Fragment[stmt[i]][field] # <<>>}
    IN  IF hits = {} THEN <<>>
        ELSE Fragment[stmt[CHOOSE i \in hits : \A j \in hits : i <= j]][field]

\* lines 148-151, 224-227: the statement sets the category cursor
SetsCategory(stmt) ==
    /\ HasMarker(stmt, "has_cat_id") /\ HasMarker(stmt, "has_name")
    /\ Search(stmt, "cat_id") # <<>> /\ Search(stmt, "cat_name") # <<>>

\* lines 158-160, 232-235: the word/hint match of the statement, <<>> when none
WordHint(stmt) ==
    IF HasMarker(stmt, "has_word") /\ HasMarker(stmt, "has_hint")
    THEN Search(stmt, "word_hint") ELSE <<>>

\* lines 141-142, 219-220
UnknownId == <<"u", "n", "k", "n", "o", "w", "n">>
UnknownName == <<"U", "n", "k", "n", "o", "w", "n">>

-----------------------------------------------------------------------------
(* Category registry: iter_records_and_categories, build_category_maps *)

\* lines 146-161: one statement of the scan; s holds the cursor, the categories
\* dict and the records yielded
RecordStep(s, stmt) ==
    IF SetsCategory(stmt)
    THEN [s EXCEPT !.id = Search(stmt, "cat_id")[1],
                   !.name = Search(stmt, "cat_name")[1],
                   !.categories = DictSet(s.categories, Search(stmt, "cat_id")[1],
                                          Search(stmt, "cat_name")[1])]
    ELSE IF WordHint(stmt) # <<>>
    THEN [s EXCEPT !.records = Append(s.records,
              [id |-> s.id, name |-> s.name,
               word |-> WordHint(stmt)[1].word, hint |-> WordHint(stmt)[1].hint])]
    ELSE s

RECURSIVE RecordScan(_, _)
RecordScan(s, stmts) ==
    IF stmts = <<>> THEN s ELSE RecordScan(RecordStep(s, Head(stmts)), Tail(stmts))

iter_records_and_categories(lines) ==
    RecordScan([id |-> UnknownId, name |-> UnknownName, categories |-> <<>>,
                records |-> <<>>],
               iter_statements(lines, DefaultMaxStmtChars))

\* lines 169-172: cat_by_id is bound to the generator's dict when a record is
\* yielded, and stays {} when none is
ScannedCategories(lines) ==
    LET s == iter_records_and_categories(lines)
    IN  IF s.records = <<>> THEN <<>> ELSE s.categories

\* setdefault instead of assignment: the first write of a key wins
RECURSIVE BuildAliases_FirstWins(_, _)
BuildAliases_FirstWins(aliases, items) ==
    IF items = <<>> THEN aliases
    ELSE LET cid   == Head(items)[1]
             cname == Head(items)[2]
             a1    == IF norm_cat(cid) \in DictKeys(aliases) THEN aliases
                      ELSE DictSet(aliases, norm_cat(cid), <<cid, cname>>)
             a2    == IF norm_cat(cname) \in DictKeys(a1) THEN a1
                      ELSE DictSet(a1, norm_cat(cname), <<cid, cname>>)
         IN  BuildAliases_FirstWins(a2, Tail(items))

\* a third key per category: the normalized name without a leading "the "
RECURSIVE BuildAliases_Article(_, _)
BuildAliases_Article(aliases, items) ==
    IF items = <<>> THEN aliases
    ELSE LET cid   == Head(items)[1]
             cname == Head(items)[2]
             key   == norm_cat(cname)
             a1    == DictSet(aliases, norm_cat(cid), <<cid, cname>>)
             a2    == DictSet(a1, key, <<cid, cname>>)
             a3    == IF StartsWith(key, <<"t", "h", "e", " ">>)
                      THEN DictSet(a2, SubSeq(key, 5, Len(key)), <<cid, cname>>)
                      ELSE a2
         IN  BuildAliases_Article(a3, Tail(items))

\* lines 174-177
RECURSIVE BuildAliases(_, _)
BuildAliases(aliases, items) ==
    IF items = <<>> THEN aliases
    ELSE LET cid   == Head(items)[1]
             cname == Head(items)[2]
             a1    == DictSet(aliases, norm_cat(cid), <<cid, cname>>)
             a2    == DictSet(a1, norm_cat(cname), <<cid, cname>>)
         IN  BuildAliases(a2, Tail(items))

build_category_maps(lines) ==
    LET cat_by_id == ScannedCategories(lines)
    IN  [cat_by_id |-> cat_by_id, aliases |-> BuildAliases(<<>>, cat_by_id)]

\* line 373: CAT_ALIASES.get(norm_cat(t))
ResolveAlias(aliases, t) == DictGet(aliases, norm_cat(t))

-----------------------------------------------------------------------------
(* Solver: solve_hint *)

KnownModes == {"exact", "contains", "startswith", "endswith"}

\* lines 204-213, for a mode the function knows
hint_ok(mode, q, h) ==
    LET rh == norm_hint(h)
    IN  CASE mode = "exact"      -> rh = q
          [] mode = "contains"   -> Contains(rh, q)
          [] mode = "startswith" -> StartsWith(rh, q)
          [] mode = "endswith"   -> EndsWith(rh, q)

\* line 244
Header(name, id) == name \o <<" ", "(">> \o id \o <<")">>

\* grouped[header].append(word)
GroupAppend(grouped, header, word) ==
    DictSet(grouped, header,
            IF DictGet(grouped, header) = <<>> THEN <<word>>
            ELSE Append(DictGet(grouped, header)[1], word))

\* "if allowed_cat_ids_norm:": an empty allow-set filters nothing
Filtered_Truthy(allowed, id) ==
    allowed # <<>> /\ allowed[1] # {} /\ norm_cat(id) \notin allowed[1]

\* line 238: the entry is skipped by the category filter; allowed is <<>> for
\* None and <<set>> for a set
Filtered(allowed, id) == allowed # <<>> /\ norm_cat(id) \notin allowed[1]

\* the cap is tested one match late
LimitReached_After(total, limit) == total > limit

\* line 247
LimitReached(total, limit) == total >= limit

\* the cursor's name is left behind
MoveCursor_IdOnly(s, stmt) == [s EXCEPT !.id = Search(stmt, "cat_id")[1]]

\* lines 228-229
MoveCursor(s, stmt) ==
    [s EXCEPT !.id = Search(stmt, "cat_id")[1], !.name = Search(stmt, "cat_name")[1]]

\* lines 222-248: one statement of the scan; s.ctl is "scan", "break" or "raise"
SolveStep(s, stmt, c) ==
    IF s.ctl # "scan" THEN s
    ELSE IF SetsCategory(stmt) THEN MoveCursor(s, stmt)
    ELSE IF WordHint(stmt) = <<>> THEN s
    ELSE IF Filtered(c.allowed, s.id) THEN s
    ELSE IF c.mode \notin KnownModes THEN [s EXCEPT !.ctl = "raise"]
    ELSE IF ~hint_ok(c.mode, norm_hint(c.hint), WordHint(stmt)[1].hint) THEN s
    ELSE [s EXCEPT !.grouped = GroupAppend(s.grouped, Header(s.name, s.id),
                                           WordHint(stmt)[1].word),
                   !.total = s.total + 1,
                   !.ctl = IF LimitReached(s.total + 1, c.limit)
                           THEN "break" ELSE "scan"]

RECURSIVE SolveScan(_, _, _)
SolveScan(s, stmts, c) ==
    IF stmts = <<>> THEN s
    ELSE SolveScan(SolveStep(s, Head(stmts), c), Tail(stmts), c)

\* lines 216-220
SolveStart == [id |-> UnknownId, name |-> UnknownName, grouped |-> <<>>,
               total |-> 0, ctl |-> "scan"]

solve_hint(lines, c) ==
    SolveScan(SolveStart, iter_statements(lines, DefaultMaxStmtChars), c)

-----------------------------------------------------------------------------
(* The registry built at startup, then hint queries one after the other *)

LinePool ==
    { <<"K1", ";", "\n">>,
      <<"K2", ";", "W2", ";", "W3", "\n">>,
      <<"W1", ";", "K3", ";", "\n">>,
      <<"KB", "W2", ";", "\n">>,
      <<"BIG", ";", "W2", ";", "\n">>,
      <<"WB", ";", " ", ";", "W4", ";", "\n">> }

Sources == UNION {[1..n -> LinePool] : n \in 0..MaxLines}

QueryHints == { <<"A", "b", " ">>, <<"c">> }
Modes == KnownModes \cup {"fuzzy"}
AllowSets == { <<>>, <<{}>>, <<{<<"1">>}>>, <<{<<"x">>, UnknownId}>> }

Init ==
    /\ WORDS_FILE \in Sources
    /\ CAT_BY_ID = <<>>
    /\ CAT_ALIASES = <<>>
    /\ started = FALSE
    /\ call = Idle
    /\ outcome = Idle
    /\ TokIdle
    /\ nc = Idle
    /\ FmtIdle
    /\ BotIdle

\* lines 186-188
Startup ==
    /\ ~started
    /\ LET maps == build_category_maps(WORDS_FILE)
       IN  /\ CAT_BY_ID' = maps.cat_by_id
           /\ CAT_ALIASES' = maps.aliases
    /\ started' = TRUE
    /\ UNCHANGED <<WORDS_FILE, call, outcome, tokVars, nc, fmt, botVars>>

\* solve_hint is entered with its arguments
SolveCall ==
    /\ started
    /\ call = Idle
    /\ \E h \in QueryHints, a \in AllowSets, m \in Modes, l \in 0..MaxLimit :
           call' = [hint |-> h, allowed |-> a, mode |-> m, limit |-> l]
    /\ outcome' = [state |-> "running", grouped |-> <<>>]
    /\ UNCHANGED <<WORDS_FILE, CAT_BY_ID, CAT_ALIASES, started, tokVars, nc, fmt, botVars>>

\* line 250
SolveReturn ==
    /\ call # Idle
    /\ outcome.state = "running"
    /\ LET r == solve_hint(WORDS_FILE, call)
       IN  /\ r.ctl # "raise"
           /\ outcome' = [state |-> "returned", grouped |-> r.grouped]
    /\ UNCHANGED <<WORDS_FILE, CAT_BY_ID, CAT_ALIASES, started, call, tokVars, nc, fmt, botVars>>

\* line 214
SolveRaise ==
    /\ call # Idle
    /\ outcome.state = "running"
    /\ solve_hint(WORDS_FILE, call).ctl = "raise"
    /\ outcome' = [state |-> "raised", grouped |-> <<>>]
    /\ UNCHANGED <<WORDS_FILE, CAT_BY_ID, CAT_ALIASES, started, call, tokVars, nc, fmt, botVars>>

\* the caller is done with the result
SolveDone ==
    /\ call # Idle
    /\ outcome.state \in {"returned", "raised"}
    /\ call' = Idle
    /\ outcome' = Idle
    /\ UNCHANGED <<WORDS_FILE, CAT_BY_ID, CAT_ALIASES, started, tokVars, nc, fmt, botVars>>

Next == Startup \/ SolveCall \/ SolveReturn \/ SolveRaise \/ SolveDone

Spec == Init /\ [][Next]_vars

-----------------------------------------------------------------------------
(* Properties of the registry and the solver, stated on the statements of   *)
(* the file in scan order                                                    *)

Stmts == iter_statements(WORDS_FILE, DefaultMaxStmtChars)

\* the category-definition statements recognized before statement i of st
DefsBefore(st, i) == {j \in 1..(i - 1) : SetsCategory(st[j])}
DefId(st, j) == Search(st[j], "cat_id")[1]
DefName(st, j) == Search(st[j], "cat_name")[1]

\* the <<id, name>> of the most recent of them, or the sentinel
CategoryAt(st, i) ==
    IF DefsBefore(st, i) = {} THEN <<UnknownId, UnknownName>>
    ELSE LET j == CHOOSE j \in DefsBefore(st, i) : \A k \in DefsBefore(st, i) : k <= j
         IN  <<DefId(st, j), DefName(st, j)>>

\* What each statement is, by its place in the file: whether it is a word/hint
\* entry, its word and hint, and the id and header "{name} ({id})" of the
\* category in force there.
Entries(st) ==
    [i \in 1..Len(st) |->
        LET cat == CategoryAt(st, i)
            wh  == IF SetsCategory(st[i]) THEN <<>> ELSE WordHint(st[i])
        IN  [entry  |-> wh # <<>>,
             word   |-> IF wh # <<>> THEN wh[1].word ELSE <<>>,
             hint   |-> IF wh # <<>> THEN wh[1].hint ELSE <<>>,
             id     |-> cat[1],
             header |-> cat[2] \o <<" ", "(">> \o cat[1] \o <<")">>]] \o <<>>

\* the entries of E that pass the call's allow-set and match its hint
MatchesIn(E, c) ==
    {i \in 1..Len(E) :
        /\ E[i].entry
        /\ c.allowed = <<>> \/ norm_cat(E[i].id) \in c.allowed[1]
        /\ hint_ok(c.mode, norm_hint(c.hint), E[i].hint)}

\* the first n elements of a set of statement numbers
FirstOf(M, n) == {i \in M : Cardinality({j \in M : j <= i}) <= n}

\* the elements of a set of statement numbers in increasing order
InOrder(I) ==
    [k \in 1..Cardinality(I) |-> CHOOSE i \in I : Cardinality({j \in I : j <= i}) = k]

\* the words of the entries of I filed under header h, in scan order
WordsUnder(E, h, I) ==
    LET at == InOrder({i \in I : E[i].header = h})
    IN  [k \in 1..Len(at) |-> E[at[k]].word]

RECURSIVE SumLen(_)
SumLen(d) == IF d = <<>> THEN 0 ELSE Len(Head(d)[2]) + SumLen(Tail(d))

\* the number of words in a result mapping
Total(grouped) == SumLen(grouped)

Returned == call # Idle /\ outcome.state = "returned"

\* C1: the mapping solve_hint returns never holds more than limit words, and
\* holds exactly limit when more than limit entries match (limit >= 0).
C1_QueryCap ==
    (Returned /\ call.mode \in KnownModes) =>
        LET M == MatchesIn(Entries(Stmts), call)
        IN  /\ Total(outcome.grouped) <= call.limit
            /\ Cardinality(M) > call.limit => Total(outcome.grouped) = call.limit

\* C2: every word of the result is filed under "{name} ({id})" of the most
\* recent category-definition recognized before its entry in this scan, or
\* under "Unknown (unknown)" when there is none: the result is, header by
\* header and in scan order, the words of the first n matching entries.
C2_Attribution ==
    (Returned /\ call.mode \in KnownModes) =>
        LET E == Entries(Stmts)
            M == MatchesIn(E, call)
        IN  \E n \in 0..Cardinality(M) :
                LET F == FirstOf(M, n)
                IN  /\ DictKeys(outcome.grouped) = {E[i].header : i \in F}
                    /\ \A h \in DictKeys(outcome.grouped) :
                           DictGet(outcome.grouped, h) = <<WordsUnder(E, h, F)>>

\* after the registry found categories, a call files one word under the
\* sentinel header and another under a category's
C2_Witness ==
    /\ Returned
    /\ CAT_BY_ID # <<>>
    /\ Header(UnknownName, UnknownId) \in DictKeys(outcome.grouped)
    /\ Len(outcome.grouped) >= 2

\* C3: with an allow-set (the empty one too) every word returned comes from an
\* entry whose category id, normalized, is in the set; the entries left out by
\* the filter do not count toward limit, and without an allow-set no matching
\* entry is left out: the scan gives every match unless the cap is reached.
C3_CategoryFilter ==
    (Returned /\ call.mode \in KnownModes) =>
        LET E == Entries(Stmts)
            M == MatchesIn(E, call)
        IN  /\ call.allowed # <<>> =>
                  \A p \in 1..Len(outcome.grouped) :
                      \A k \in 1..Len(outcome.grouped[p][2]) :
                          \E i \in 1..Len(E) :
                              /\ E[i].entry
                              /\ E[i].word = outcome.grouped[p][2][k]
                              /\ E[i].header = outcome.grouped[p][1]
                              /\ norm_cat(E[i].id) \in call.allowed[1]
            /\ \/ Total(outcome.grouped) = Cardinality(M)
               \/ Total(outcome.grouped) >= call.limit

\* an entry of another category matches the hint and is left out, and the
\* result, below the cap, holds an entry of the allowed category
C3_Witness ==
    /\ Returned /\ call.mode = "exact"
    /\ call.allowed = <<{<<"1">>}>>
    /\ outcome.grouped # <<>>
    /\ Total(outcome.grouped) < call.limit
    /\ LET E == Entries(Stmts)
       IN  \E i \in 1..Len(E) :
               /\ E[i].entry
               /\ norm_cat(E[i].id) \notin call.allowed[1]
               /\ hint_ok(call.mode, norm_hint(call.hint), E[i].hint)

\* C4: after build_category_maps, CAT_BY_ID has exactly the ids of the
\* category-definitions recognized in the source, each with the name of the
\* last definition of that id, whatever entries the source holds.
C4_RegistryComplete ==
    started =>
        LET st   == Stmts
            defs == DefsBefore(st, Len(st) + 1)
        IN  /\ DictKeys(CAT_BY_ID) = {DefId(st, j) : j \in defs}
            /\ \A j \in defs :
                   (\A k \in defs : k > j => DefId(st, k) # DefId(st, j))
                       => DictGet(CAT_BY_ID, DefId(st, j)) = <<DefName(st, j)>>

\* the writes of lines 176-177 in order, as <<key, <<id, name>>>>
AliasWrites(cat_by_id) ==
    [p \in 1..(2 * Len(cat_by_id)) |->
        LET item == cat_by_id[(p + 1) \div 2]
        IN  <<norm_cat(item[IF p % 2 = 1 THEN 1 ELSE 2]), <<item[1], item[2]>>>>] \o <<>>

\* the pair the last write of key k carries
LastWritten(W, k) ==
    LET at == {p \in 1..Len(W) : W[p][1] = k}
    IN  W[CHOOSE p \in at : \A q \in at : q <= p][2]

\* the normalized ids and names of the categories
KeysWritten(W) == {W[p][1] : p \in 1..Len(W)}

Tokens ==
    { <<"1">>, <<" ", "x">>, <<"A", "&", "B">>, <<"a", "/", "b">>,
      <<"T", "H", "E", "-", "x">>, <<"z">>, <<"9">> }

\* C5: the alias index has the keys norm_cat(id) and norm_cat(name) of every
\* category of CAT_BY_ID; a key resolves to its category's pair, or to the pair
\* written last when several categories normalize to it; every value is a pair
\* of CAT_BY_ID; a token whose normalized form is no key resolves to absent.
C5_AliasResolution ==
    started =>
        LET W == AliasWrites(CAT_BY_ID)
            K == KeysWritten(W)
        IN  /\ \A i \in 1..Len(CAT_BY_ID) :
                   /\ DictGet(CAT_ALIASES, norm_cat(CAT_BY_ID[i][1])) # <<>>
                   /\ DictGet(CAT_ALIASES, norm_cat(CAT_BY_ID[i][2])) # <<>>
            /\ \A p \in 1..Len(W) :
                   (\A q \in 1..Len(W) : W[q][1] = W[p][1] => W[q][2] = W[p][2])
                       => DictGet(CAT_ALIASES, W[p][1]) = <<W[p][2]>>
            /\ \A k \in K : DictGet(CAT_ALIASES, k) = <<LastWritten(W, k)>>
            /\ \A p \in 1..Len(CAT_ALIASES) :
                   DictGet(CAT_BY_ID, CAT_ALIASES[p][2][1]) = <<CAT_ALIASES[p][2][2]>>
            /\ \A t \in Tokens :
                   norm_cat(t) \notin DictKeys(CAT_ALIASES)
                       => ResolveAlias(CAT_ALIASES, t) = <<>>

\* two categories normalize to one key, which resolves to the later one, and
\* a token is absent
C5_Witness ==
    /\ started
    /\ \E i, j \in 1..Len(CAT_BY_ID) :
           /\ i < j
           /\ norm_cat(CAT_BY_ID[i][2]) = norm_cat(CAT_BY_ID[j][2])
           /\ ResolveAlias(CAT_ALIASES, <<"A", "&", "B">>)
                  = <<<<CAT_BY_ID[j][1], CAT_BY_ID[j][2]>>>>
    /\ ResolveAlias(CAT_ALIASES, <<"z">>) = <<>>

The == <<"t", "h", "e", " ">>

\* a normalized name without its leading "the "
Unarticled(k) == SubSeq(k, Len(The) + 1, Len(k))

C7_UnknownModeFails ==
    (call # Idle /\ call.mode \notin KnownModes) => outcome.state # "returned"

-----------------------------------------------------------------------------
(* Properties of the tokenizer *)

\* the positions of the terminators of a text, and the k-th of them
SemiPos(t) == {i \in 1..Len(t) : t[i] = ";"}
NthSemi(t, k) == CHOOSE i \in SemiPos(t) : Cardinality({j \in SemiPos(t) : j <= i}) = k
PieceStart(t, k) == IF k = 1 THEN 1 ELSE NthSemi(t, k - 1) + 1
IsBlank(s) == \A i \in 1..Len(s) : s[i] \in WS

\* What a text holds, read as a whole with no regard to its lines: each
\* terminated piece that is not blank, with its terminator, in order, then the
\* unterminated remainder, stripped, when it is not blank.
TextStatements(t) ==
    LET n      == Cardinality(SemiPos(t))
        pieces == [k \in 1..n |-> SubSeq(t, PieceStart(t, k), NthSemi(t, k))]
        rest   == SubSeq(t, PieceStart(t, n + 1), Len(t))
    IN  SelectSeq(pieces, LAMBDA p : ~IsBlank(SubSeq(p, 1, Len(p) - 1)))
        \o (IF IsBlank(rest) THEN <<>> ELSE <<Strip(rest)>>)

\* a text with its line breaks taken out
Unbroken(t) == SelectSeq(t, LAMBDA c : c # "\n")

\* C8: when the buffer never exceeded the threshold, the statements yielded are
\* those of the text read as a whole, wherever its line breaks fall: a statement
\* delivered on several lines is yielded once, holding all its lines in order,
\* and, line breaks aside, the output is that of the same text on one line.
C8_Reassembly ==
    (tpc = "done" /\ ~oversize) =>
        /\ yielded = TextStatements(text)
        /\ [i \in 1..Len(yielded) |-> Unbroken(yielded[i])]
               = TextStatements(Unbroken(text))

\* a statement that came in two lines is yielded second, after a one-line one
C8_Witness ==
    /\ tpc = "done" /\ ~oversize
    /\ Len(yielded) >= 2
    /\ \E i \in 1..(Len(yielded[2]) - 1) : yielded[2][i] = "\n"
    /\ yielded[2][Len(yielded[2])] = ";"

\* C9: after each physical line is processed the buffer holds at most
\* max_stmt_chars characters, and it never holds more than max_stmt_chars plus
\* the length of the line just read; buf_len is the number of characters held.
C9_MemoryBound ==
    /\ buf_len = StrLen(Join(buf))
    /\ tpc \in {"loop", "done"} => StrLen(Join(buf)) <= max_stmt_chars
    /\ StrLen(Join(buf)) <= max_stmt_chars + StrLen(line)

\* a text with no terminator at all, longer than the threshold, read to its end
C9_Witness ==
    /\ tpc = "done"
    /\ ";" \notin Range(text)
    /\ StrLen(text) > max_stmt_chars
    /\ Len(yielded) >= 2

-----------------------------------------------------------------------------
(* norm_cat on two spellings of one category name: the same words, joined   *)
(* by "&", by the word "and" or by "/", capitalized or not                  *)

WordPool == { <<"f", "o", "o", "d", "s">>, <<"d", "r", "i", "n", "k", "s">> }

Joints == { <<" ", "&", " ">>, <<" ", "a", "n", "d", " ">>, <<"/">>, <<"&">> }

UpperChar(c) ==
    IF \E i \in 1..26 : LowerChars[i] = c
    THEN UpperChars[CHOOSE i \in 1..26 : LowerChars[i] = c]
    ELSE c

Capitalize(w) == <<UpperChar(Head(w))>> \o Tail(w)

\* the words ws joined by the joints js, each word capitalized when cap
RECURSIVE Spelling(_, _, _)
Spelling(ws, js, cap) ==
    LET w == IF cap THEN Capitalize(Head(ws)) ELSE Head(ws)
    IN  IF Len(ws) = 1 THEN w
        ELSE w \o Head(js) \o Spelling(Tail(ws), Tail(js), cap)

InitNorm ==
    /\ \E n \in 2..MaxWords :
           \E ws \in [1..n -> WordPool], ja, jb \in [1..(n - 1) -> Joints],
              ca, cb \in BOOLEAN :
               nc = [a |-> Spelling(ws, ja, ca), b |-> Spelling(ws, jb, cb),
                     ka |-> <<>>, kb |-> <<>>, done |-> FALSE]
    /\ TokIdle
    /\ ScanIdle
    /\ FmtIdle
    /\ BotIdle

\* lines 66-75, on both spellings
NormCat ==
    /\ ~nc.done
    /\ nc' = [nc EXCEPT !.ka = norm_cat(nc.a), !.kb = norm_cat(nc.b), !.done = TRUE]
    /\ UNCHANGED <<tokVars, scanVars, fmt, botVars>>

NextNorm == NormCat

SpecNorm == InitNorm /\ [][NextNorm]_vars

\* C10: two spellings of a category that differ only in writing "&", "and" or
\* "/" between the same words (as "Foods & Drinks", "Foods and Drinks" and
\* "foods/drinks" do) normalize to the same key.
C10_Equivalence == nc.done => nc.ka = nc.kb

-----------------------------------------------------------------------------
(* Result formatting: format_compact *)

DigitChars == <<"0", "1", "2", "3", "4", "5", "6", "7", "8", "9">>

\* ord(c), for the characters the headers of the model are written with
CodePoint(c) ==
    IF \E i \in 1..26 : UpperChars[i] = c
    THEN 64 + (CHOOSE i \in 1..26 : UpperChars[i] = c)
    ELSE IF \E i \in 1..26 : LowerChars[i] = c
    THEN 96 + (CHOOSE i \in 1..26 : LowerChars[i] = c)
    ELSE IF \E i \in 1..10 : DigitChars[i] = c
    THEN 47 + (CHOOSE i \in 1..10 : DigitChars[i] = c)
    ELSE CASE c = " " -> 32
           [] c = "&" -> 38
           [] c = "(" -> 40
           [] c = ")" -> 41

\* a < b on str: the first differing character decides, a proper prefix is less
RECURSIVE StrLess(_, _)
StrLess(a, b) ==
    IF b = <<>> THEN FALSE
    ELSE IF a = <<>> THEN TRUE
    ELSE IF Head(a) = Head(b) THEN StrLess(Tail(a), Tail(b))
    ELSE CodePoint(Head(a)) < CodePoint(Head(b))

\* line 260: key(c1) < key(c2) for key = lambda c: (-len(grouped[c]), c.lower())
KeyLess(grouped, c1, c2) ==
    LET n1 == Len(DictGet(grouped, c1)[1])
        n2 == Len(DictGet(grouped, c2)[1])
    IN  \/ -n1 < -n2
        \/ -n1 = -n2 /\ StrLess(Lower(c1), Lower(c2))

\* sorted() is stable: a key goes before the first key that is greater
RECURSIVE InsertKey(_, _, _)
InsertKey(grouped, sorted, c) ==
    IF sorted = <<>> THEN <<c>>
    ELSE IF KeyLess(grouped, c, Head(sorted)) THEN <<c>> \o sorted
    ELSE <<Head(sorted)>> \o InsertKey(grouped, Tail(sorted), c)

\* line 260: sorted(grouped.keys(), key=...)
RECURSIVE SortedKeys(_, _, _)
SortedKeys(grouped, keys, sorted) ==
    IF keys = <<>> THEN sorted
    ELSE SortedKeys(grouped, Tail(keys), InsertKey(grouped, sorted, Head(keys)))

\* the duplicate test compares the word as written
Seen_Exact(seen, w) == w \in seen

\* lines 262-263
Seen(seen, w) == Lower(w) \in seen

\* lines 261-266: the words of one bucket; acc holds words and seen
RECURSIVE UniqueWords(_, _)
UniqueWords(acc, ws) ==
    IF ws = <<>> THEN acc
    ELSE UniqueWords(IF Seen(acc.seen, Head(ws)) THEN acc
                     ELSE [words |-> Append(acc.words, Head(ws)),
                           seen  |-> acc.seen \cup {Lower(Head(ws))}],
                     Tail(ws))

\* lines 258-266
RECURSIVE VisitBuckets(_, _, _)
VisitBuckets(grouped, cats, acc) ==
    IF cats = <<>> THEN acc
    ELSE VisitBuckets(grouped, Tail(cats),
                      UniqueWords(acc, DictGet(grouped, Head(cats))[1]))

\* str(n) for n >= 0
RECURSIVE Str(_)
Str(n) ==
    IF n < 10 THEN <<DigitChars[n + 1]>>
    ELSE Str(n \div 10) \o <<DigitChars[(n % 10) + 1]>>

\* "\n".join(words)
RECURSIVE JoinLines(_)
JoinLines(ws) ==
    IF ws = <<>> THEN <<>>
    ELSE IF Len(ws) = 1 THEN Head(ws)
    ELSE Head(ws) \o <<"\n">> \o JoinLines(Tail(ws))

NoMatches == <<"N", "o", " ", "m", "a", "t", "c", "h", "e", "s", ".">>
OneMatch == <<"1", " ", "M", "a", "t", "c", "h", ":">>
Matches == <<" ", "M", "a", "t", "c", "h", "e", "s", ":">>

\* the keys of a dict in insertion order
KeyList(d) == [i \in 1..Len(d) |-> d[i][1]]

\* sum(len(v) for v in grouped.values())
RECURSIVE SumValues(_)
SumValues(grouped) ==
    IF grouped = <<>> THEN 0 ELSE Len(Head(grouped)[2]) + SumValues(Tail(grouped))

format_compact(grouped) ==
    IF SumValues(grouped) = 0 THEN NoMatches
    ELSE LET cats  == SortedKeys(grouped, KeyList(grouped), <<>>)
             words == VisitBuckets(grouped, cats, [words |-> <<>>, seen |-> {}]).words
         IN  IF Len(words) = 1 THEN OneMatch \o <<"\n">> \o words[1]
             ELSE Str(Len(words)) \o Matches \o <<"\n">> \o JoinLines(words)

(* format_compact on the mappings solve_hint can return: headers *)
(* "{name} ({id})", each with a non-empty list of words          *)

MaxMatches == 3

FmtHeaders ==
    { Header(<<"B">>, <<"1">>), Header(<<"a">>, <<"2">>), Header(<<"A">>, <<"2">>) }

FmtWords == { <<"R", "y", "e">>, <<"r", "y", "e">>, <<"O", "a", "t">> }

\* the non-empty lists of at most n words
WordLists(n) == UNION {[1..k -> FmtWords] : k \in 1..n}

\* the orders in which a dict can hold some of the headers
KeyOrders ==
    UNION { {p \in [1..k -> FmtHeaders] : \A i, j \in 1..k : i # j => p[i] # p[j]}
            : k \in 0..Cardinality(FmtHeaders) }

\* the dicts with these keys, in this order, holding at most budget words
RECURSIVE DictsOf(_, _)
DictsOf(keys, budget) ==
    IF keys = <<>> THEN {<<>>}
    ELSE UNION { { <<<<Head(keys), l>>>> \o rest
                   : rest \in DictsOf(Tail(keys), budget - Len(l)) }
                 : l \in WordLists(budget - (Len(keys) - 1)) }

Groupings == UNION {DictsOf(keys, MaxMatches) : keys \in KeyOrders}

InitFmt ==
    /\ \E g \in Groupings : fmt = [grouped |-> g, reply |-> <<>>, done |-> FALSE]
    /\ TokIdle
    /\ ScanIdle
    /\ nc = Idle
    /\ BotIdle

\* line 431
FormatCompact ==
    /\ ~fmt.done
    /\ fmt' = [fmt EXCEPT !.reply = format_compact(fmt.grouped), !.done = TRUE]
    /\ UNCHANGED <<tokVars, scanVars, nc, botVars>>

NextFmt == FormatCompact

SpecFmt == InitFmt /\ [][NextFmt]_vars

(* Properties of the formatter *)

\* the lines of a text
RECURSIVE SplitLines(_, _)
SplitLines(s, cur) ==
    IF s = <<>> THEN <<cur>>
    ELSE IF Head(s) = "\n" THEN <<cur>> \o SplitLines(Tail(s), <<>>)
    ELSE SplitLines(Tail(s), Append(cur, Head(s)))

\* the number a string of digits writes
RECURSIVE NatOf(_)
NatOf(ds) ==
    IF ds = <<>> THEN 0
    ELSE 10 * NatOf(SubSeq(ds, 1, Len(ds) - 1))
         + (CHOOSE d \in 0..9 : DigitChars[d + 1] = ds[Len(ds)])

\* a comes before b in the alphabet, character by character
LexBefore(a, b) ==
    \E k \in 1..Len(b) :
        /\ k <= Len(a) + 1
        /\ SubSeq(a, 1, k - 1) = SubSeq(b, 1, k - 1)
        /\ k = Len(a) + 1 \/ CodePoint(a[k]) < CodePoint(b[k])

Bucket(g, h) == DictGet(g, h)[1]

\* bucket h may not be visited after bucket k
MustPrecede(g, h, k) ==
    \/ Len(Bucket(g, h)) > Len(Bucket(g, k))
    \/ /\ Len(Bucket(g, h)) = Len(Bucket(g, k))
       /\ LexBefore(Lower(h), Lower(k))

\* the orders of the buckets by descending size, then by lower-cased header
VisitOrders(g) ==
    {p \in [1..Len(g) -> DictKeys(g)] :
        /\ \A i, j \in 1..Len(g) : i # j => p[i] # p[j]
        /\ \A i, j \in 1..Len(g) : i < j => ~MustPrecede(g, p[j], p[i])}

\* the words of a list whose lower-cased form no earlier word of the list has
FirstOccurrences(ws) ==
    LET at == InOrder({i \in 1..Len(ws) :
                          \A j \in 1..(i - 1) : Lower(ws[j]) # Lower(ws[i])})
    IN  [k \in 1..Len(at) |-> ws[at[k]]]

\* C11: for a result with words, the reply is a count header and one line per
\* word; the word lines are the words of the buckets, visited by descending
\* size and then by lower-cased header, each bucket in its own order, less
\* every word whose lower-cased form came earlier; the header's number is the
\* number of word lines, "1 Match:" for one and "N Matches:" otherwise.  For a
\* result without words the reply is "No matches.".
C11_Format ==
    fmt # Idle /\ fmt.done =>
        LET g     == fmt.grouped
            lines == SplitLines(fmt.reply, <<>>)
            words == Tail(lines)
            n     == Len(words)
        IN  IF g = <<>> THEN fmt.reply = NoMatches
            ELSE /\ \E p \in VisitOrders(g) :
                        words = FirstOccurrences(Join([i \in 1..Len(p) |-> Bucket(g, p[i])]))
                 /\ \E k \in 1..Len(Head(lines)) :
                        LET ds   == SubSeq(Head(lines), 1, k)
                            rest == SubSeq(Head(lines), k + 1, Len(Head(lines)))
                        IN  /\ \A i \in 1..k : ds[i] \in Range(DigitChars)
                            /\ ds[1] # "0"
                            /\ NatOf(ds) = n
                            /\ rest = IF n = 1
                                      THEN <<" ", "M", "a", "t", "c", "h", ":">>
                                      ELSE <<" ", "M", "a", "t", "c", "h", "e", "s", ":">>

\* the larger bucket was inserted second and is visited first, and a word of
\* the smaller bucket is dropped as a duplicate in another casing
C11_Witness ==
    /\ fmt # Idle /\ fmt.done
    /\ Len(fmt.grouped) = 2
    /\ Len(fmt.grouped[1][2]) < Len(fmt.grouped[2][2])
    /\ LET lines == SplitLines(fmt.reply, <<>>)
       IN  /\ Len(lines) = 3
           /\ lines[2] = fmt.grouped[2][2][1]
           /\ lines[3] = fmt.grouped[2][2][2]
           /\ Lower(fmt.grouped[1][2][1]) = Lower(lines[2])
           /\ fmt.grouped[1][2][1] # lines[2]

-----------------------------------------------------------------------------
(* The bot: the commands and the hint query of lines 283-434.  The handlers  *)
(* run one at a time on the event loop; solve_hint runs on an executor       *)
(* thread, next to whatever the event loop is doing.  A Python set is an     *)
(* object: the store and the locals hold references to it, and heap gives    *)
(* the elements of each.  The replies go to the transport and are no part    *)
(* of the state.                                                             *)

Users == {"u1", "u2"}

MaxScans == 1

\* line 427
QueryLimit == 200

Refs == 1..(Cardinality(Users) + MaxScans + 1)

\* d.pop(k, None)
DictPop(d, k) == SelectSeq(d, LAMBDA kv : kv[1] # k)

\* the references held, holder by holder: the store's values, the scans'
\* allowed_ids, the resolved_ids of the command in progress
Held(store, sc, c) ==
    [i \in 1..Len(store) |-> store[i][2]]
    \o Join([i \in 1..Len(sc) |-> sc[i].allowed])
    \o (IF c = Idle THEN <<>> ELSE <<c.resolved_ids>>)

\* An object's address is no part of the program's behaviour: the objects are
\* numbered in the order their first holders come in Held, and an object
\* nothing holds is freed.
Numbered(store, sc, c, h) ==
    LET held   == Held(store, sc, c)
        first  == {i \in 1..Len(held) : \A j \in 1..(i - 1) : held[j] # held[i]}
        num(r) == Cardinality({i \in first :
                      i <= CHOOSE k \in first : held[k] = r})
    IN  [store |-> [i \in 1..Len(store) |-> <<store[i][1], num(store[i][2])>>],
         scans |-> [i \in 1..Len(sc) |->
                       [sc[i] EXCEPT !.allowed =
                           [j \in 1..Len(sc[i].allowed) |-> num(sc[i].allowed[j])]]],
         cmd   |-> IF c = Idle THEN Idle ELSE [c EXCEPT !.resolved_ids = num(@)],
         heap  |-> [n \in Refs |->
                       IF \E i \in first : num(held[i]) = n
                       THEN h[held[CHOOSE i \in first : num(held[i]) = n]]
                       ELSE {}]]

\* the address of a new object
Alloc(store, sc, c) == Cardinality(Range(Held(store, sc, c))) + 1

\* the user's stored set is emptied and filled again, instead of a new one
NewSetRef_InPlace(store, sc, c, u) ==
    IF DictGet(store, u) # <<>> THEN DictGet(store, u)[1] ELSE Alloc(store, sc, c)

\* line 368: set() is a new object
NewSetRef(store, sc, c, u) == Alloc(store, sc, c)

\* the lookup inserts the missing key, as grouped[header] of line 245 does
DictAfterGet_Default(d, k) == IF k \in DictKeys(d) THEN d ELSE Append(d, <<k, <<>>>>)

\* line 373: dict.get leaves the dict as it is
DictAfterGet(d, k) == d

\* the test of line 381 is missing
NoneResolved_Never(resolved) == FALSE

\* line 381: not resolved_ids
NoneResolved(resolved) == resolved = {}

\* setdefault: an entry the user already has is kept
StoreSet_KeepOld(store, u, ref) ==
    IF u \in DictKeys(store) THEN store ELSE DictSet(store, u, ref)

\* line 388
StoreSet(store, u, ref) == DictSet(store, u, ref)

Clear == <<"c", "l", "e", "a", "r">>
Show == <<"s", "h", "o", "w">>

\* lines 355, 360
IsClear(tokens) == Len(tokens) = 1 /\ Lower(tokens[1]) = Clear
IsShow(tokens) == Len(tokens) = 1 /\ Lower(tokens[1]) = Show

\* the token lists parse_quoted_args gives for the messages of the model
TokenLists ==
    { <<>>,
      <<<<"C", "l", "e", "a", "r">>>>,
      <<<<"s", "h", "o", "w">>>>,
      <<<<"z", "z">>, <<"1">>>>,
      <<<<"a", " ", "&", " ", "b">>, <<"1">>>>,
      <<<<"z", "z">>>> }

\* message.content of the messages that are no command
Contents == { <<".", "a", "b", " ">>, <<".", " ">>, <<"a", "b">> }

BotSource == << <<"K1", ";", "W1", ";", "\n">>, <<"K2", ";", "W2", ";", "\n">> >>

\* What a user has issued so far: the tokens of the latest filter-set in which
\* a token resolved, <<>> when there is none or a clear came after it.
NoHistory == [good |-> <<>>]

AnyResolves(aliases, tokens) ==
    \E i \in 1..Len(tokens) : norm_cat(tokens[i]) \in DictKeys(aliases)

HistAfterSet(h, u, aliases, tokens) ==
    IF AnyResolves(aliases, tokens)
    THEN [h EXCEPT ![u] = [good |-> <<tokens>>]]
    ELSE h

HistAfterClear(h, u) == [h EXCEPT ![u] = NoHistory]

InitBot ==
    /\ WORDS_FILE = BotSource
    /\ CAT_BY_ID = <<>>
    /\ CAT_ALIASES = <<>>
    /\ started = FALSE
    /\ call = Idle
    /\ outcome = Idle
    /\ USER_ALLOWED_CAT_IDS = <<>>
    /\ heap = [r \in Refs |-> {}]
    /\ cmd = Idle
    /\ scans = <<>>
    /\ hist = [u \in Users |-> NoHistory]
    /\ TokIdle
    /\ nc = Idle
    /\ FmtIdle

registry == <<WORDS_FILE, CAT_BY_ID, CAT_ALIASES, started, call, outcome>>

\* the event loop is free to run a handler
LoopFree == started /\ cmd = Idle

\* lines 297-305: reads CAT_BY_ID and replies
ListCats ==
    /\ LoopFree
    /\ \E u \in Users : Len(CAT_BY_ID) >= 0
    /\ UNCHANGED vars

\* lines 308-334: reads CAT_BY_ID and replies
FindCat ==
    /\ LoopFree
    /\ \E u \in Users : \A i \in 1..Len(CAT_BY_ID) : Len(CAT_BY_ID[i]) >= 0
    /\ UNCHANGED vars

\* lines 345-348
CategoriesUsage ==
    /\ LoopFree
    /\ \E u \in Users, tokens \in TokenLists : tokens = <<>>
    /\ UNCHANGED vars

\* lines 355-358
CategoriesClear ==
    /\ LoopFree
    /\ \E u \in Users, tokens \in TokenLists :
           /\ tokens # <<>>
           /\ IsClear(tokens)
           /\ LET n == Numbered(DictPop(USER_ALLOWED_CAT_IDS, u), scans, cmd, heap)
              IN  /\ USER_ALLOWED_CAT_IDS' = n.store
                  /\ scans' = n.scans
                  /\ heap' = n.heap
           /\ hist' = HistAfterClear(hist, u)
    /\ UNCHANGED <<registry, cmd, tokVars, nc, fmt>>

\* lines 360-366: reads the user's entry and replies
CategoriesShow ==
    /\ LoopFree
    /\ \E u \in Users, tokens \in TokenLists :
           /\ tokens # <<>>
           /\ ~IsClear(tokens)
           /\ IsShow(tokens)
           /\ DictGet(USER_ALLOWED_CAT_IDS, u) \in {<<>>} \cup {<<r>> : r \in Refs}
    /\ UNCHANGED vars

\* lines 345-370: a filter-set is under way, its locals are in cmd
CategoriesBegin ==
    /\ LoopFree
    /\ \E u \in Users, tokens \in TokenLists :
           /\ tokens # <<>>
           /\ ~IsClear(tokens)
           /\ ~IsShow(tokens)
           /\ LET r == NewSetRef(USER_ALLOWED_CAT_IDS, scans, cmd, u)
              IN  /\ cmd' = [author |-> u, tokens |-> tokens, rest |-> tokens,
                             resolved_ids |-> r, resolved_pretty |-> <<>>,
                             unresolved |-> <<>>]
                  /\ heap' = [heap EXCEPT ![r] = {}]
    /\ UNCHANGED <<registry, USER_ALLOWED_CAT_IDS, scans, hist, tokVars, nc, fmt>>

\* lines 372-379, for one token
ResolveToken ==
    /\ started
    /\ cmd # Idle
    /\ cmd.rest # <<>>
    /\ LET t   == Head(cmd.rest)
           hit == DictGet(CAT_ALIASES, norm_cat(t))
       IN  /\ CAT_ALIASES' = DictAfterGet(CAT_ALIASES, norm_cat(t))
           /\ IF hit # <<>>
              THEN /\ heap' = [heap EXCEPT ![cmd.resolved_ids] = @ \cup {norm_cat(hit[1][1])}]
                   /\ cmd' = [cmd EXCEPT !.rest = Tail(@),
                                         !.resolved_pretty =
                                             Append(@, Header(hit[1][2], hit[1][1]))]
              ELSE /\ heap' = heap
                   /\ cmd' = [cmd EXCEPT !.rest = Tail(@), !.unresolved = Append(@, t)]
    /\ UNCHANGED <<WORDS_FILE, CAT_BY_ID, started, call, outcome,
                   USER_ALLOWED_CAT_IDS, scans, hist, tokVars, nc, fmt>>

\* lines 381-386
CategoriesReject ==
    /\ started
    /\ cmd # Idle
    /\ cmd.rest = <<>>
    /\ NoneResolved(heap[cmd.resolved_ids])
    /\ LET n == Numbered(USER_ALLOWED_CAT_IDS, scans, Idle, heap)
       IN  /\ USER_ALLOWED_CAT_IDS' = n.store
           /\ scans' = n.scans
           /\ heap' = n.heap
    /\ cmd' = Idle
    /\ hist' = HistAfterSet(hist, cmd.author, CAT_ALIASES, cmd.tokens)
    /\ UNCHANGED <<registry, tokVars, nc, fmt>>

\* lines 388-394
CategoriesInstall ==
    /\ started
    /\ cmd # Idle
    /\ cmd.rest = <<>>
    /\ ~NoneResolved(heap[cmd.resolved_ids])
    /\ LET n == Numbered(StoreSet(USER_ALLOWED_CAT_IDS, cmd.author, cmd.resolved_ids),
                         scans, Idle, heap)
       IN  /\ USER_ALLOWED_CAT_IDS' = n.store
           /\ scans' = n.scans
           /\ heap' = n.heap
    /\ cmd' = Idle
    /\ hist' = HistAfterSet(hist, cmd.author, CAT_ALIASES, cmd.tokens)
    /\ UNCHANGED <<registry, tokVars, nc, fmt>>

\* lines 402-415
IsHintQuery(content) ==
    /\ StartsWith(Strip(content), <<".">>)
    /\ Strip(Tail(Strip(content))) # <<>>

\* lines 399-415: the message is no command and no hint query
IgnoreMessage ==
    /\ LoopFree
    /\ \E content \in Contents : ~IsHintQuery(content)
    /\ UNCHANGED vars

\* lines 413-429: the allow-set is read and the scan handed to the executor.
\* gen is the generator of line 222: the statements it has still to yield;
\* seen are those the loop has taken, and snap notes the elements the set had
\* when it was read.
HintQuery ==
    /\ LoopFree
    /\ Len(scans) < MaxScans
    /\ \E u \in Users, content \in Contents :
           /\ IsHintQuery(content)
           /\ LET allowed_ids == DictGet(USER_ALLOWED_CAT_IDS, u)
              IN  scans' = Append(scans,
                      [author |-> u, hint |-> Strip(Tail(Strip(content))),
                       allowed |-> allowed_ids,
                       gen |-> iter_statements(WORDS_FILE, DefaultMaxStmtChars),
                       seen |-> <<>>, s |-> SolveStart,
                       snap |-> IF allowed_ids = <<>> THEN <<>>
                                ELSE <<heap[allowed_ids[1]]>>])
    /\ UNCHANGED <<registry, USER_ALLOWED_CAT_IDS, heap, cmd, hist, tokVars, nc, fmt>>

\* the arguments of the call of lines 422-428, the set read as it is now
ScanCall(sc, h) ==
    [hint |-> sc.hint,
     allowed |-> IF sc.allowed = <<>> THEN <<>> ELSE <<h[sc.allowed[1]]>>,
     mode |-> "exact", limit |-> QueryLimit]

\* the loop of line 222 is left: the generator is exhausted, or line 248
ScanOver(sc) == sc.s.ctl # "scan" \/ sc.gen = <<>>

\* lines 222-248 on the worker, for one statement
ScanStep ==
    /\ started
    /\ \E i \in 1..Len(scans) :
           LET sc == scans[i]
           IN  /\ ~ScanOver(sc)
               /\ scans' = [scans EXCEPT
                               ![i].s = SolveStep(sc.s, Head(sc.gen), ScanCall(sc, heap)),
                               ![i].gen = Tail(sc.gen),
                               ![i].seen = Append(sc.seen, Head(sc.gen))]
    /\ UNCHANGED <<registry, USER_ALLOWED_CAT_IDS, heap, cmd, hist, tokVars, nc, fmt>>

RemoveAt(l, i) == SubSeq(l, 1, i - 1) \o SubSeq(l, i + 1, Len(l))

\* lines 250, 431-434: the scan returned, the handler formats and replies
ScanReply ==
    /\ LoopFree
    /\ \E i \in 1..Len(scans) :
           /\ ScanOver(scans[i])
           /\ Len(format_compact(scans[i].s.grouped)) > 0
           /\ LET n == Numbered(USER_ALLOWED_CAT_IDS, RemoveAt(scans, i), cmd, heap)
              IN  /\ USER_ALLOWED_CAT_IDS' = n.store
                  /\ scans' = n.scans
                  /\ heap' = n.heap
    /\ UNCHANGED <<registry, cmd, hist, tokVars, nc, fmt>>

NextBot ==
    \/ Startup
    \/ ListCats \/ FindCat
    \/ CategoriesUsage \/ CategoriesClear \/ CategoriesShow
    \/ CategoriesBegin \/ ResolveToken \/ CategoriesReject \/ CategoriesInstall
    \/ IgnoreMessage \/ HintQuery \/ ScanStep \/ ScanReply

SpecBot == InitBot /\ [][NextBot]_vars

(* Properties of the bot *)

\* a user's entry in the store: <<>> when absent, else <<the set's elements>>
Entry(store, h, u) ==
    IF DictGet(store, u) = <<>> THEN <<>> ELSE <<h[DictGet(store, u)[1]]>>

\* the normalized ids of the categories the tokens of a filter-set resolve to
Resolved(aliases, tokens) ==
    {norm_cat(ResolveAlias(aliases, tokens[i])[1][1]) :
        i \in {j \in 1..Len(tokens) : ResolveAlias(aliases, tokens[j]) # <<>>}}

\* the entry a user's operations so far call for
Expected(aliases, h, u) ==
    IF h[u].good = <<>> THEN <<>> ELSE <<Resolved(aliases, h[u].good[1])>>

\* a filter-set operation ends in this step
FilterSetEnds == cmd # Idle /\ cmd' = Idle

\* a hint query is taken up in this step
QueryBegins == started /\ Len(scans') = Len(scans) + 1

\* C12 as stated: when a filter-set operation ends, its user's entry is the set
\* of normalized ids the operation resolved (absent or empty when it resolved
\* none), whatever the entry was before.
C12_MostRecentSet ==
    [][FilterSetEnds =>
          LET e == Entry(USER_ALLOWED_CAT_IDS', heap', cmd.author)
              r == Resolved(CAT_ALIASES, cmd.tokens)
          IN  IF r = {} THEN e \in {<<>>, <<{}>>} ELSE e = <<r>>]_vars

\* C12 amended: a user's entry is the set of normalized ids resolved by the
\* user's most recent filter-set in which at least one token resolved (the
\* earlier entry replaced, not merged) if no clear by the user followed it,
\* and is absent otherwise; a query runs with exactly its user's entry as the
\* allow-set, and with no filter when the user has none.
C12_Lifecycle ==
    /\ [](started =>
             \A u \in Users :
                 Entry(USER_ALLOWED_CAT_IDS, heap, u) = Expected(CAT_ALIASES, hist, u))
    /\ [][QueryBegins =>
             LET sc == scans'[Len(scans')]
             IN  ScanCall(sc, heap').allowed = Expected(CAT_ALIASES, hist, sc.author)]_vars

\* a query in flight was given the entry {x, 1}; its user then set {1}, which
\* is the entry now
C12_Witness ==
    /\ started
    /\ \E i \in 1..Len(scans) :
           /\ scans[i].snap = <<{<<"x">>, <<"1">>}>>
           /\ Entry(USER_ALLOWED_CAT_IDS, heap, scans[i].author) = <<{<<"1">>}>>
           /\ hist[scans[i].author].good = <<<< <<"z", "z">>, <<"1">> >>>>

\* C17: once build_category_maps has returned, no step of any handler or of
\* a scan changes CAT_BY_ID or CAT_ALIASES.
C17_RegistryReadOnly ==
    [][started => CAT_BY_ID' = CAT_BY_ID /\ CAT_ALIASES' = CAT_ALIASES]_vars

\* the registry holds categories, a filter is stored, a scan has taken
\* statements and a filter-set has looked a missing token up
C17_Witness ==
    /\ started
    /\ CAT_BY_ID # <<>> /\ CAT_ALIASES # <<>>
    /\ USER_ALLOWED_CAT_IDS # <<>>
    /\ \E i \in 1..Len(scans) : scans[i].seen # <<>>
    /\ cmd # Idle /\ cmd.unresolved # <<>>

\* C18: the set a scan was given has the elements it had when the query read
\* it, whatever filter-set or clear has run or is under way since, and what the
\* scan has done so far is what the scan of the statements it has taken does
\* with those elements as the allow-set.
C18_Snapshot ==
    \A i \in 1..Len(scans) :
        LET sc == scans[i]
        IN  /\ (sc.allowed = <<>>) <=> (sc.snap = <<>>)
            /\ sc.allowed # <<>> => heap[sc.allowed[1]] = sc.snap[1]
            /\ sc.s = SolveScan(SolveStart, sc.seen,
                                [hint |-> sc.hint, allowed |-> sc.snap,
                                 mode |-> "exact", limit |-> QueryLimit])

\* a scan given {1} is part way through the file and has admitted an entry;
\* its user's filter-set, begun since, has so far put x into a new set
C18_Witness ==
    /\ cmd # Idle /\ cmd.rest # <<>>
    /\ heap[cmd.resolved_ids] = {<<"x">>}
    /\ \E i \in 1..Len(scans) :
           /\ scans[i].author = cmd.author
           /\ scans[i].snap = <<{<<"1">>}>>
           /\ scans[i].seen # <<>> /\ scans[i].gen # <<>>
           /\ scans[i].s.total = 1

\* the store as values: each user with the elements of the user's set
StoreValue(store, h) == [i \in 1..Len(store) |-> <<store[i][1], h[store[i][2]]>>]

\* C19: a filter-set in which no token resolves leaves the store as it was;
\* every stored set is non-empty and holds only norm_cat(id) of ids of
\* CAT_BY_ID; a step changes the entry of one user at most, and a filter-set
\* only its author's.
C19_FailedSetKeepsStore ==
    /\ [][(FilterSetEnds /\ Resolved(CAT_ALIASES, cmd.tokens) = {}) =>
             StoreValue(USER_ALLOWED_CAT_IDS', heap')
                 = StoreValue(USER_ALLOWED_CAT_IDS, heap)]_vars
    /\ [](\A i \in 1..Len(USER_ALLOWED_CAT_IDS) :
             /\ heap[USER_ALLOWED_CAT_IDS[i][2]] # {}
             /\ heap[USER_ALLOWED_CAT_IDS[i][2]]
                    \subseteq {norm_cat(CAT_BY_ID[j][1]) : j \in 1..Len(CAT_BY_ID)})
    /\ [][\A u \in Users :
             Entry(USER_ALLOWED_CAT_IDS', heap', u) # Entry(USER_ALLOWED_CAT_IDS, heap, u)
                 => /\ \A v \in Users \ {u} :
                           Entry(USER_ALLOWED_CAT_IDS', heap', v)
                               = Entry(USER_ALLOWED_CAT_IDS, heap, v)
                    /\ cmd # Idle => cmd.author = u]_vars

\* both users have a filter in force and the filter-set of one of them has
\* gone through its tokens without resolving any
C19_Witness ==
    /\ cmd # Idle /\ cmd.rest = <<>>
    /\ heap[cmd.resolved_ids] = {}
    /\ cmd.unresolved # <<>>
    /\ \A u \in Users : Entry(USER_ALLOWED_CAT_IDS, heap, u) # <<>>


-----------------------------------------------------------------------------
(* Properties of the tokenizer: terminators, the end of the stream, content *)

\* C13: every statement yielded holds at most one terminator, and then as its
\* last character; and the oversize flush is only taken for a buffer that
\* holds no terminator, so that complete statements are never yielded merged.
C13_SingleTerminator ==
    /\ \A i \in 1..Len(yielded) :
           \A p \in SemiPos(yielded[i]) : p = Len(yielded[i])
    /\ (tpc = "body" /\ TooLong(Buffer, max_stmt_chars)) => ~HasTerminator(Buffer)


-----------------------------------------------------------------------------
(* Properties of the scans: statements with markers and no fields, the cap *)

\* the statement carries both category markers and the pair cannot be extracted
Unextractable(stmt) ==
    /\ HasMarker(stmt, "has_cat_id") /\ HasMarker(stmt, "has_name")
    /\ ~SetsCategory(stmt)

\* C14: a statement with the category_id and name markers from which the
\* (id, name) pair cannot be extracted is a no-op in the registry scan and in
\* the query scan: it leaves cursor, categories, records and matches as they
\* were, also when it holds a well-formed word/hint object.
C14_UnextractableNoOp ==
    LET st   == Stmts \o <<>>
        bad  == {i \in 1..Len(st) : Unextractable(st[i])}
        rec0 == [id |-> UnknownId, name |-> UnknownName, categories |-> <<>>,
                 records |-> <<>>]
    IN  /\ started =>
               \A i \in bad :
                   LET s == RecordScan(rec0, SubSeq(st, 1, i - 1))
                   IN  RecordStep(s, st[i]) = s
        /\ Returned =>
               \A i \in bad :
                   LET s == SolveScan(SolveStart, SubSeq(st, 1, i - 1), call)
                   IN  SolveStep(s, st[i], call) = s


\* the same call with no effective cap: a limit no scan of st can reach
Uncapped(c, st) == [c EXCEPT !.limit = Len(st) + 1]

\* the states of the scan of st under c: Before[k] is the state in which
\* statement k is met, Before[Len(st) + 1] the state at the end
Before(st, c) ==
    [k \in 1..(Len(st) + 1) |-> SolveScan(SolveStart, SubSeq(st, 1, k - 1), c)] \o <<>>

\* the statements the loop of lines 222-248 takes from the generator
Examined(st, c) ==
    LET B == Before(st, c) IN {k \in 1..Len(st) : B[k].ctl = "scan"}

IsPrefix(a, b) == Len(a) <= Len(b) /\ SubSeq(b, 1, Len(a)) = a

\* C15: for limit >= 1 the result of solve_hint is made of the first limit
\* matches, in scan order, of those the same call returns with no effective
\* cap: header by header it holds the words of the first limit statements that
\* yield a match in the uncapped scan, in scan order, each bucket and the list
\* of headers being a prefix of the uncapped result's; and the statements
\* examined end with the one that yields the limit-th match.
C15_TruncationIsPrefix ==
    (Returned /\ call.limit >= 1) =>
        LET st   == Stmts \o <<>>
            U    == Before(st, Uncapped(call, st))
            full == U[Len(st) + 1].grouped
            hits == {k \in 1..Len(st) : U[k + 1].total > U[k].total}
            F    == FirstOf(hits, call.limit)
            at(h) == InOrder({k \in F : Header(U[k].name, U[k].id) = h})
        IN  /\ Total(outcome.grouped) = Cardinality(F)
            /\ DictKeys(outcome.grouped) = {Header(U[k].name, U[k].id) : k \in F}
            /\ \A h \in DictKeys(outcome.grouped) :
                   /\ DictGet(outcome.grouped, h)
                          = <<[n \in 1..Len(at(h)) |-> WordHint(st[at(h)[n]])[1].word]>>
                   /\ IsPrefix(DictGet(outcome.grouped, h)[1], DictGet(full, h)[1])
            /\ IsPrefix([p \in 1..Len(outcome.grouped) |-> outcome.grouped[p][1]],
                        [p \in 1..Len(full) |-> full[p][1]])
            /\ Examined(st, call)
                   = IF Cardinality(hits) >= call.limit
                     THEN {k \in 1..Len(st) : \E j \in F : k <= j}
                     ELSE 1..Len(st)

\* the cap is reached while a later statement of the file would match too, in
\* a bucket the result already has
C15_Witness ==
    /\ Returned /\ call.limit >= 1
    /\ Total(outcome.grouped) = call.limit
    /\ LET st   == Stmts \o <<>>
           full == SolveScan(SolveStart, st, Uncapped(call, st))
       IN  /\ full.total > call.limit
           /\ Examined(st, call) # 1..Len(st)
           /\ \E h \in DictKeys(outcome.grouped) :
                  Len(DictGet(full.grouped, h)[1]) > Len(DictGet(outcome.grouped, h)[1])


-----------------------------------------------------------------------------
(* The end of the stream *)

\* the text after the last terminator of t
Remainder(t) == SubSeq(t, PieceStart(t, Cardinality(SemiPos(t)) + 1), Len(t))

\* the entries a source may end with, written with no terminator
FinalEntries == {"K1", "K2", "W1", "W3"}

\* sources that end with such an entry, alone or after one line of the pool
\* that leaves nothing but white space behind its last terminator
OpenEnded ==
    LET before == {<<>>} \cup {<<l>> : l \in {m \in LinePool : IsBlank(Remainder(m))}}
    IN  {pre \o <<<<e>>>> : pre \in before, e \in FinalEntries}

\* the final entry of each such source is the last statement of the file, and
\* both scans classify it: a category-definition enters the registry scan's
\* dict and moves both cursors, a word/hint entry is the last record of the
\* registry scan and the last word of the uncapped query for its hint
FinalEntryClassified ==
    \A src \in OpenEnded :
        LET st == iter_statements(src, DefaultMaxStmtChars)
            e  == src[Len(src)]
            r  == iter_records_and_categories(src)
        IN  /\ st # <<>>
            /\ st[Len(st)] = e
            /\ SetsCategory(e) =>
                   LET id   == Search(e, "cat_id")[1]
                       name == Search(e, "cat_name")[1]
                       g    == solve_hint(src, [hint |-> <<"c">>, allowed |-> <<>>,
                                                mode |-> "exact", limit |-> Len(st) + 1])
                   IN  /\ DictGet(r.categories, id) = <<name>>
                       /\ r.id = id /\ r.name = name
                       /\ g.id = id /\ g.name = name
            /\ ~SetsCategory(e) =>
                   LET wh == WordHint(e)[1]
                       g  == solve_hint(src, [hint |-> wh.hint, allowed |-> <<>>,
                                              mode |-> "exact", limit |-> Len(st) + 1])
                       b  == DictGet(g.grouped, Header(g.name, g.id))
                   IN  /\ r.records # <<>>
                       /\ r.records[Len(r.records)]
                              = [id |-> r.id, name |-> r.name,
                                 word |-> wh.word, hint |-> wh.hint]
                       /\ b # <<>>
                       /\ b[1][Len(b[1])] = wh.word

-----------------------------------------------------------------------------
(* Content and order *)

\* s without its first n characters
Drop(s, n) == SubSeq(s, n + 1, Len(s))

\* The statements ys, in order, make up the text t with nothing added,
\* repeated or moved: t is read from its start, and at each point either the
\* next statement is there, character for character, or a blank statement
\* with its terminator is passed over, or the last statement is all that is
\* left, no terminator in it, once stripped; after the last statement only
\* blank statements and white space are left.
RECURSIVE Covers(_, _)
Covers(t, ys) ==
    IF ys = <<>> THEN Range(t) \subseteq WS \cup {";"}
    ELSE \/ /\ StartsWith(t, Head(ys))
            /\ Covers(Drop(t, Len(Head(ys))), Tail(ys))
         \/ /\ SemiPos(t) # {}
            /\ IsBlank(SubSeq(t, 1, NthSemi(t, 1) - 1))
            /\ Covers(Drop(t, NthSemi(t, 1)), ys)
         \/ /\ Len(ys) = 1
            /\ SemiPos(t) = {}
            /\ Strip(t) = Head(ys)

\* C20: for every text and threshold the statements yielded, put end to end
\* in the order they were yielded, are the text, but for the blank statements
\* (with their terminators) and the white space around the final remainder.
C20_ContentPreserved == tpc = "done" => Covers(text, yielded)

\* a statement was yielded with the white space it starts with, a second one
\* followed it, and characters of the text were dropped
C20_Witness ==
    /\ tpc = "done"
    /\ Len(yielded) = 2
    /\ Join(yielded) # text
    /\ yielded[1] = <<" ", "a", ";">>
    /\ Len(text) = MaxText

=============================================================================
